---------------------------- MODULE Spec2Model ----------------------------
(***************************************************************************)
(* gin-contrib/timeout: the deadline guard returned by New(), the shadow   *)
(* response writer (Writer) and the BufferPool.                            *)
(*                                                                         *)
(* One foreground path per request runs the handler closure of New(); one  *)
(* background goroutine per request runs the unit of work (c.Next()) and    *)
(* calls the methods of the shadow writer.  The real gin.ResponseWriter is *)
(* modelled by its status field, its header map, its "written" flag and    *)
(* what has physically been sent.                                          *)
(***************************************************************************)
EXTENDS Integers, Sequences, FiniteSets, TLC

\* ------------------------------------------------------------------ bounds
\* Number of calls the unit of work makes on the writer before it returns or panics.
MaxOps == 3
\* The same bound when two concurrent requests are explored together.
MaxPoolOps == 2
\* Most chunks a direct client of the pool writes to one buffer.
MaxBufLen == 2
\* Most BufferPool instances the package-level variable points to over time (calls of
\* New()).
MaxNew == 2

\* ------------------------------------------------------- program constants
StatusOK == 200
StatusRequestTimeout == 408
StatusInternalServerError == 500
StatusGatewayTimeout == 504
\* defaultTimeout = 5 * time.Second, in milliseconds.
DefaultTimeout == 5000
\* w.body = nil
NoBuffer == 0

\* ------------------------------------------------------------- small sets
\* Requests in flight (one gin.Context each).
Reqs == {1, 2}
\* bytes.Buffer objects the pool can ever allocate (&bytes.Buffer{}).
BufIds == 1..Cardinality(Reqs)
\* Status codes the unit of work passes to WriteHeader: valid ones, gin's -1, invalid ones.
HandlerCodes == {-1, 99, 201, 404, 1000}
\* Header names the unit of work sets or deletes through Header().
HandlerHeaders == {"X-Handler"}
\* Header name c.String / c.JSON set on the writer they render to.
ContentType == "Content-Type"
\* Panic values raised by the unit of work itself.
PanicValues == {1}
\* The error a failed Write of the real writer returns, as a panic value.
WriteError == 2
\* The fallback responders New() is configured with: defaultResponse and a custom one.
DefaultResponse == [status |-> StatusRequestTimeout, body |-> "Request Timeout"]
CustomResponse == [status |-> StatusGatewayTimeout, body |-> "Timed out."]
Responders == {DefaultResponse, CustomResponse}
\* Timeout durations (ms) New() is configured with: a non-positive and a positive one.
Durations == {0, 50}
\* WithTimeout(-1 * time.Microsecond): a negative duration.
NegativeDurations == {-1}
\* Lengths of the handler chain of a request: the guard is handlers[0], the stages of
\* the unit of work follow it.
ChainLens == {2, 3}
\* gin's abortIndex, the value c.Abort() stores in c.index.
AbortIndex == 63
\* Capacity of the channels finish and panicChan: make(chan ..., 1).
ChanCap == 1

VARIABLES
    t,        \* the Timeout configuration: [timeout, response, debug (gin.IsDebugging())]
    active,   \* the requests that arrive
    bufPool,  \* the package-level bufPool: [id, last, pool], id naming the instance
    bufs,     \* contents of every bytes.Buffer
    nalloc,   \* how many buffers were allocated so far
    fg,       \* foreground path of each request: [pc, buffer, branch, raised]
    ctx,      \* gin.Context of each request: [Writer, index, handlers (their number),
              \* Err (c.Request.Context().Err(), which no statement of New writes)]
    ch,       \* finish, panicChan and the time.After timer of each request
    tw,       \* the shadow Writer of each request
    rw,       \* the real gin.ResponseWriter of each request and what it sent
    bg,       \* background goroutine of each request: [pc, ops, pend, nwrites, idx]
    hist      \* history of each request, recorded for the properties; now is the
              \* status an effective WriteHeaderNow committed (-1 while it runs)

vars == <<t, active, bufPool, bufs, nalloc, fg, ctx, ch, tw, rw, bg, hist>>

\* ------------------------------------------------- gin.ResponseWriter (real)
\* A fresh gin responseWriter: status 200, nothing written.
NewRealWriter ==
    [status |-> StatusOK, headers |-> {}, written |-> FALSE,
     sentStatus |-> 0, sentHeaders |-> {}, body |-> <<>>]

\* responseWriter.WriteHeader: only records the status, and not once written.
RealWriteHeader(w, code) ==
    IF code > 0 /\ w.status # code /\ ~w.written
    THEN [w EXCEPT !.status = code]
    ELSE w

\* responseWriter.WriteHeaderNow: the first physical write sends status and headers.
RealWriteHeaderNow(w) ==
    IF ~w.written
    THEN [w EXCEPT !.written = TRUE, !.sentStatus = w.status, !.sentHeaders = w.headers]
    ELSE w

\* responseWriter.Write: sends the headers if needed, then the bytes.
RealWrite(w, data) ==
    [RealWriteHeaderNow(w) EXCEPT !.body = @ \o data]

\* Copy of the cached headers into the real writer's header map (dst[k] = vv).
CopyHeaders(w, hs) ==
    [w EXCEPT !.headers = @ \cup hs]

\* c.String(code, text) / c.JSON(code, obj) on a context whose Writer is the real one.
RenderReal(w, code, data) ==
    RealWrite([RealWriteHeader(w, code) EXCEPT !.headers = @ \cup {ContentType}], data)

\* ---------------------------------------------------------------- BufferPool
\* Buffers BufferPool.Get may return: the cached last one, else one of sync.Pool's
\* or a new one (sync.Pool may answer nil at any time).
GetChoices ==
    IF bufPool.last # NoBuffer
    THEN {bufPool.last}
    ELSE bufPool.pool \cup (IF nalloc < Cardinality(BufIds) THEN {nalloc + 1} ELSE {})

\* Get that hands out the cached buffer without clearing p.last.
PoolAfterGetKeepsLast(b) ==
    IF bufPool.last # NoBuffer
    THEN bufPool
    ELSE [bufPool EXCEPT !.pool = @ \ {b}]

\* The pool after Get returned b.
PoolAfterGet(b) ==
    IF bufPool.last # NoBuffer
    THEN [bufPool EXCEPT !.last = NoBuffer]
    ELSE [bufPool EXCEPT !.pool = @ \ {b}]

\* BufferPool.Put: no reset; the buffer becomes `last` or goes to sync.Pool.
PoolAfterPut(b) ==
    IF bufPool.last = NoBuffer
    THEN [bufPool EXCEPT !.last = b]
    ELSE [bufPool EXCEPT !.pool = @ \cup {b}]

\* -------------------------------------------------------------------- Writer
\* NewWriter(w, buf)
NewWriter(b) ==
    [body |-> b, headers |-> {}, mu |-> "free", timeout |-> FALSE,
     wroteHeaders |-> FALSE, code |-> 0]

\* Writer.FreeBuffer, w.body.Reset(): the buffers afterwards.
FreeBufferReset(r) == [bufs EXCEPT ![tw[r].body] = <<>>]

\* Writer.FreeBuffer, w.body = nil: the writer afterwards.
FreeBufferNil(r) == [tw[r] EXCEPT !.body = NoBuffer]

\* A check that forgets the upper bound.
ValidCodeNoUpperBound(code) == code >= 100

\* checkWriteHeaderCode
ValidCode(code) == code >= 100 /\ code <= 999

\* Writer.Write refuses once timed out or released.
WriteSilenced(wr) == wr.timeout \/ wr.body = NoBuffer

\* WriteHeader that forgets the timeout flag.
WriteHeaderSkippedNoTimeout(wr) == wr.wroteHeaders

\* WriteHeader that forgets the committed flag.
WriteHeaderSkippedNoCommitted(wr) == wr.timeout

\* Writer.WriteHeader does nothing once timed out or once it wrote headers.
WriteHeaderSkipped(wr) == wr.timeout \/ wr.wroteHeaders

\* Writer.WriteHeader(code) for a valid code or -1, on writer wr over real writer w:
\* unless skipped, copy the cached headers to the real writer, record the code
\* (writeHeader) and pass it to the real writer's WriteHeader.
ShadowWriteHeader(wr, w, code) ==
    IF WriteHeaderSkipped(wr) \/ code = -1
    THEN [tw |-> wr, rw |-> w]
    ELSE [tw |-> [wr EXCEPT !.wroteHeaders = TRUE, !.code = code],
          rw |-> RealWriteHeader(CopyHeaders(w, wr.headers), code)]

\* Writer.WriteHeaderNow up to its call of w.WriteHeader: if no headers were written,
\* default the code to 200 and copy the cached headers to the real writer.
ShadowHeaderNowPrepare(wr, w) ==
    IF ~wr.wroteHeaders
    THEN [tw |-> [wr EXCEPT !.code = IF @ = 0 THEN StatusOK ELSE @],
          rw |-> CopyHeaders(w, wr.headers)]
    ELSE [tw |-> wr, rw |-> w]

\* Writer.WriteHeaderNow as a whole.
ShadowWriteHeaderNow(wr, w) ==
    LET p == ShadowHeaderNowPrepare(wr, w) IN
        IF ~wr.wroteHeaders THEN ShadowWriteHeader(p.tw, p.rw, p.tw.code) ELSE p

\* Status that always defers to the real writer.
StatusAlwaysReal(wr, w) == w.status

\* Writer.Status: the cached code unless none was set or the writer timed out.
Status(wr, w) == IF wr.code = 0 \/ wr.timeout THEN w.status ELSE wr.code

\* sync.Mutex of the writer
MuFree(r) == tw[r].mu = "free"

\* A body chunk: who produced it, for which request, which chunk.
Chunk(kind, r, n) == <<kind, r, n>>

\* ---------------------------------------------------------------- options
\* WithTimeout(d) and WithResponse(h): functions that set one field of the Timeout.
WithTimeout(d) == [kind |-> "timeout", timeout |-> d, response |-> DefaultResponse]
WithResponse(h) == [kind |-> "response", timeout |-> 0, response |-> h]

\* opt(t)
ApplyOption(cfg, opt) ==
    IF opt.kind = "timeout"
    THEN [cfg EXCEPT !.timeout = opt.timeout]
    ELSE [cfg EXCEPT !.response = opt.response]

\* for _, opt := range opts { opt(t) }
RECURSIVE ApplyOptions(_, _)
ApplyOptions(cfg, opts) ==
    IF opts = <<>> THEN cfg ELSE ApplyOptions(ApplyOption(cfg, Head(opts)), Tail(opts))

\* New() that starts from a zero Timeout instead of the defaults.
NewTimeoutZeroValue(opts) ==
    ApplyOptions([timeout |-> 0, response |-> CustomResponse], opts)

\* New(opts...): the Timeout starts with the defaults and the options are applied in
\* order.
NewTimeout(opts) ==
    ApplyOptions([timeout |-> DefaultTimeout, response |-> DefaultResponse], opts)

\* The options the tests and the README pass to New.
Options ==
    {WithTimeout(d) : d \in Durations \cup NegativeDurations}
        \cup {WithResponse(CustomResponse)}

\* Argument lists of New: no option, one option, two options.
OptionLists == {<<>>} \cup {<<o>> : o \in Options} \cup {<<o, p>> : o, p \in Options}

\* The configuration of the guard built by New(opts...) in the mode gin runs in; opts
\* records the arguments of that call.
Config(opts, dbg) ==
    [timeout |-> NewTimeout(opts).timeout, response |-> NewTimeout(opts).response,
     debug |-> dbg, opts |-> opts]

\* ---------------------------------------------------------------- initial
InitCommon ==
    /\ \E opts \in OptionLists, dbg \in BOOLEAN : t = Config(opts, dbg)
    /\ bufPool = [id |-> 1, last |-> NoBuffer, pool |-> {}]
    /\ bufs = [b \in BufIds |-> <<>>]
    /\ nalloc = 0
    /\ fg = [r \in Reqs |-> [pc |-> "idle", buffer |-> NoBuffer, branch |-> "none",
                             raised |-> 0]]
    /\ \E n \in ChainLens :
        ctx = [r \in Reqs |-> [Writer |-> "w", index |-> 0, handlers |-> n,
                               Err |-> "nil"]]
    /\ ch = [r \in Reqs |-> [finish |-> 0, panicChan |-> <<>>, timer |-> "off"]]
    /\ tw = [r \in Reqs |-> NewWriter(NoBuffer)]
    /\ rw = [r \in Reqs |-> NewRealWriter]
    /\ bg = [r \in Reqs |-> [pc |-> "off", ops |-> 0, pend |-> 0, nwrites |-> 0,
                             idx |-> 0]]
    /\ hist = [r \in Reqs |-> [gets |-> 0, puts |-> 0, putBuf |-> NoBuffer,
                               asked |-> <<>>, firstStatus |-> 0, lastRet |-> -1,
                               flushed |-> FALSE, writeFailed |-> FALSE,
                               doneEarly |-> FALSE, panicked |-> 0, appended |-> 0,
                               committedEarly |-> FALSE, panicEarly |-> FALSE,
                               lateStart |-> FALSE, now |-> 0, nowHeaders |-> {},
                               nowCalled |-> FALSE, statusEarly |-> FALSE,
                               getPool |-> 0, putPool |-> 0]]

\* One request; the guard is followed by two stages. New is called with WithTimeout,
\* alone or followed by WithResponse.
Init ==
    /\ InitCommon
    /\ Len(t.opts) >= 1 /\ t.opts[1].kind = "timeout" /\ t.opts[1].timeout \in Durations
    /\ Len(t.opts) = 2 => t.opts[2].kind = "response"
    /\ active = {1}
    /\ \A r \in Reqs : ctx[r].handlers = 3

\* ------------------------------------------------- foreground path of New()
\* The entry of the guard with a select that has no timer case.
StartNoTimer(r) ==
    /\ r \in active
    /\ fg[r].pc = "idle"
    /\ \E b \in GetChoices :
        /\ bufPool' = PoolAfterGet(b)
        /\ nalloc' = IF b > nalloc THEN b ELSE nalloc
        /\ bufs' = [bufs EXCEPT ![b] = <<>>]
        /\ tw' = [tw EXCEPT ![r] = NewWriter(b)]
        /\ fg' = [fg EXCEPT ![r].pc = "select", ![r].buffer = b]
    /\ ctx' = [ctx EXCEPT ![r].Writer = "tw"]
    /\ bg' = [bg EXCEPT ![r].pc = "enter"]
    /\ hist' = [hist EXCEPT ![r].gets = @ + 1, ![r].getPool = bufPool.id]
    /\ UNCHANGED <<t, active, rw, ch>>

\* w := c.Writer; buffer := bufPool.Get(); tw := NewWriter(w, buffer); c.Writer = tw;
\* buffer.Reset(); go func() {...}(); and the select is entered (time.After armed).
Start(r) ==
    /\ r \in active
    /\ fg[r].pc = "idle"
    /\ \E b \in GetChoices :
        /\ bufPool' = PoolAfterGet(b)
        /\ nalloc' = IF b > nalloc THEN b ELSE nalloc
        /\ bufs' = [bufs EXCEPT ![b] = <<>>]
        /\ tw' = [tw EXCEPT ![r] = NewWriter(b)]
        /\ fg' = [fg EXCEPT ![r].pc = "select", ![r].buffer = b]
    /\ ctx' = [ctx EXCEPT ![r].Writer = "tw"]
    /\ bg' = [bg EXCEPT ![r].pc = "enter"]
    /\ ch' = [ch EXCEPT ![r].timer = IF t.timeout <= 0 THEN "fired" ELSE "armed"]
    /\ hist' = [hist EXCEPT ![r].gets = @ + 1, ![r].getPool = bufPool.id]
    /\ UNCHANGED <<t, active, rw>>

\* The channel of time.After(t.timeout) becomes ready.
TimerFires(r) ==
    /\ ch[r].timer = "armed"
    /\ ch' = [ch EXCEPT ![r].timer = "fired"]
    /\ UNCHANGED <<t, active, bufPool, bufs, nalloc, fg, ctx, tw, rw, bg, hist>>

\* Fault branch that forgets c.Writer = w.
FaultBranchKeepsShadow(r) ==
    /\ fg[r].pc = "select"
    /\ ch[r].panicChan # <<>>
    /\ ~t.debug
    /\ ch' = [ch EXCEPT ![r].panicChan = <<>>]
    /\ bufs' = FreeBufferReset(r)
    /\ tw' = [tw EXCEPT ![r] = FreeBufferNil(r)]
    /\ fg' = [fg EXCEPT ![r].pc = "panicking", ![r].branch = "panic",
                        ![r].raised = Head(ch[r].panicChan)]
    /\ UNCHANGED <<t, active, bufPool, nalloc, bg, hist, ctx, rw>>

\* Fault branch without the gin.IsDebugging() case: the panic is always re-raised.
FaultBranchIgnoresDebug(r) ==
    /\ fg[r].pc = "select"
    /\ ch[r].panicChan # <<>>
    /\ ch' = [ch EXCEPT ![r].panicChan = <<>>]
    /\ bufs' = FreeBufferReset(r)
    /\ tw' = [tw EXCEPT ![r] = FreeBufferNil(r)]
    /\ ctx' = [ctx EXCEPT ![r].Writer = "w"]
    /\ fg' = [fg EXCEPT ![r].pc = "panicking", ![r].branch = "panic",
                        ![r].raised = Head(ch[r].panicChan)]
    /\ UNCHANGED <<t, active, bufPool, nalloc, bg, hist, rw>>

\* case pi := <-panicChan: FreeBuffer, restore the writer, then either the debug
\* response (500, message, stack trace) or panic(pi.Value).
FaultBranch(r) ==
    /\ fg[r].pc = "select"
    /\ ch[r].panicChan # <<>>
    /\ LET p == Head(ch[r].panicChan) IN
        /\ ch' = [ch EXCEPT ![r].panicChan = <<>>]
        /\ bufs' = FreeBufferReset(r)
        /\ tw' = [tw EXCEPT ![r] = FreeBufferNil(r)]
        /\ ctx' = [ctx EXCEPT ![r].Writer = "w"]
        /\ IF t.debug
           THEN /\ rw' = [rw EXCEPT ![r] =
                    RealWrite(RealWrite(RealWriteHeader(rw[r], StatusInternalServerError),
                                        <<Chunk("panic caught", r, p)>>),
                              <<Chunk("Panic stack trace", r, p)>>)]
                /\ fg' = [fg EXCEPT ![r].pc = "done", ![r].branch = "panic"]
           ELSE /\ rw' = rw
                /\ fg' = [fg EXCEPT ![r].pc = "panicking", ![r].branch = "panic",
                                    ![r].raised = p]
    /\ UNCHANGED <<t, active, bufPool, nalloc, bg, hist>>

\* case <-finish: tw.mu.Lock(); defer tw.mu.Unlock()
FinishBranch(r) ==
    /\ fg[r].pc = "select"
    /\ ch[r].finish = 1
    /\ MuFree(r)
    /\ ch' = [ch EXCEPT ![r].finish = 0]
    /\ tw' = [tw EXCEPT ![r].mu = "fg"]
    /\ fg' = [fg EXCEPT ![r].pc = "f_locked", ![r].branch = "finish"]
    /\ UNCHANGED <<t, active, bufPool, bufs, nalloc, ctx, rw, bg, hist>>

\* Finish branch that unlocks at its end instead of deferring the unlock: panic(err)
\* leaves the mutex locked.
FinishFlushNoDefer(r) ==
    /\ fg[r].pc = "f_locked"
    /\ LET b == fg[r].buffer
           w1 == CopyHeaders(rw[r], tw[r].headers)
           w2 == IF tw[r].code # 0 THEN RealWriteHeader(w1, tw[r].code) ELSE w1
       IN \E ok \in BOOLEAN :
            IF Len(bufs[b]) > 0 /\ ~ok
            THEN /\ rw' = [rw EXCEPT ![r] = RealWriteHeaderNow(w2)]
                 /\ fg' = [fg EXCEPT ![r].pc = "panicking", ![r].raised = WriteError]
                 /\ hist' = [hist EXCEPT ![r].writeFailed = TRUE]
                 /\ tw' = tw
                 /\ UNCHANGED <<bufs, bufPool>>
            ELSE /\ rw' = [rw EXCEPT ![r] =
                            IF Len(bufs[b]) > 0 THEN RealWrite(w2, bufs[b]) ELSE w2]
                 /\ bufs' = FreeBufferReset(r)
                 /\ tw' = [tw EXCEPT ![r] = [FreeBufferNil(r) EXCEPT !.mu = "free"]]
                 /\ bufPool' = PoolAfterPut(b)
                 /\ fg' = [fg EXCEPT ![r].pc = "done"]
                 /\ hist' = [hist EXCEPT ![r].puts = @ + 1, ![r].putBuf = b,
                                         ![r].putPool = bufPool.id]
    /\ UNCHANGED <<t, active, nalloc, ctx, bg, ch>>

\* The finish branch under tw.mu: copy the cached headers, write the status if one
\* was set, write the staged bytes if any (panic(err) when that fails), FreeBuffer,
\* Put; the deferred tw.mu.Unlock() runs on return and on panic.
FinishFlush(r) ==
    /\ fg[r].pc = "f_locked"
    /\ LET b == fg[r].buffer
           w1 == CopyHeaders(rw[r], tw[r].headers)
           w2 == IF tw[r].code # 0 THEN RealWriteHeader(w1, tw[r].code) ELSE w1
       IN \E ok \in BOOLEAN :
            IF Len(bufs[b]) > 0 /\ ~ok
            THEN /\ rw' = [rw EXCEPT ![r] = RealWriteHeaderNow(w2)]
                 /\ fg' = [fg EXCEPT ![r].pc = "panicking", ![r].raised = WriteError]
                 /\ hist' = [hist EXCEPT ![r].writeFailed = TRUE]
                 /\ tw' = [tw EXCEPT ![r].mu = "free"]
                 /\ UNCHANGED <<bufs, bufPool>>
            ELSE /\ rw' = [rw EXCEPT ![r] =
                            IF Len(bufs[b]) > 0 THEN RealWrite(w2, bufs[b]) ELSE w2]
                 /\ bufs' = FreeBufferReset(r)
                 /\ tw' = [tw EXCEPT ![r] = [FreeBufferNil(r) EXCEPT !.mu = "free"]]
                 /\ bufPool' = PoolAfterPut(b)
                 /\ fg' = [fg EXCEPT ![r].pc = "done"]
                 /\ hist' = [hist EXCEPT ![r].puts = @ + 1, ![r].putBuf = b,
                                         ![r].putPool = bufPool.id]
    /\ UNCHANGED <<t, active, nalloc, ctx, bg, ch>>

\* case <-time.After(t.timeout): tw.mu.Lock()
TimeoutLock(r) ==
    /\ fg[r].pc = "select"
    /\ ch[r].timer = "fired"
    /\ MuFree(r)
    /\ tw' = [tw EXCEPT ![r].mu = "fg"]
    /\ fg' = [fg EXCEPT ![r].pc = "t_locked", ![r].branch = "timeout"]
    /\ UNCHANGED <<t, active, bufPool, bufs, nalloc, ctx, ch, rw, bg, hist>>

\* Timeout branch that returns the buffer without silencing the writer first.
TimeoutReleaseNotSilenced(r) ==
    /\ fg[r].pc = "t_locked"
    /\ tw' = [tw EXCEPT ![r].mu = "free"]
    /\ bufPool' = PoolAfterPut(fg[r].buffer)
    /\ fg' = [fg EXCEPT ![r].pc = "t_respond"]
    /\ hist' = [hist EXCEPT ![r].puts = @ + 1, ![r].putBuf = fg[r].buffer,
                            ![r].putPool = bufPool.id]
    /\ UNCHANGED <<t, active, nalloc, ctx, ch, rw, bg, bufs>>

\* tw.timeout = true; tw.FreeBuffer(); bufPool.Put(buffer); tw.mu.Unlock()
TimeoutRelease(r) ==
    /\ fg[r].pc = "t_locked"
    /\ bufs' = FreeBufferReset(r)
    /\ tw' = [tw EXCEPT ![r] = [FreeBufferNil(r) EXCEPT !.timeout = TRUE, !.mu = "free"]]
    /\ bufPool' = PoolAfterPut(fg[r].buffer)
    /\ fg' = [fg EXCEPT ![r].pc = "t_respond"]
    /\ hist' = [hist EXCEPT ![r].puts = @ + 1, ![r].putBuf = fg[r].buffer,
                            ![r].putPool = bufPool.id]
    /\ UNCHANGED <<t, active, nalloc, ctx, ch, rw, bg>>

\* Timeout branch that runs the responder on the context as it is (its Writer is the
\* silenced shadow writer), so nothing reaches the real writer.
TimeoutRespondOnShadow(r) ==
    /\ fg[r].pc = "t_respond"
    /\ hist' = [hist EXCEPT ![r].committedEarly = rw[r].written]
    /\ fg' = [fg EXCEPT ![r].pc = "t_abort"]
    /\ UNCHANGED <<t, active, bufPool, bufs, nalloc, ctx, ch, tw, bg, rw>>

\* Timeout branch that runs the responder without looking at w.Written().
TimeoutRespondAlways(r) ==
    /\ fg[r].pc = "t_respond"
    /\ rw' = [rw EXCEPT ![r] =
                RenderReal(rw[r], t.response.status, <<Chunk(t.response.body, r, 0)>>)]
    /\ hist' = [hist EXCEPT ![r].committedEarly = rw[r].written]
    /\ fg' = [fg EXCEPT ![r].pc = "t_abort"]
    /\ UNCHANGED <<t, active, bufPool, bufs, nalloc, ctx, ch, tw, bg>>

\* Timeout branch that aborts with 408 on the real writer first: the real writer has
\* then written, and the responder is not run.
TimeoutRespondAfterAbort(r) ==
    /\ fg[r].pc = "t_respond"
    /\ rw' = [rw EXCEPT ![r] =
                RealWriteHeaderNow(RealWriteHeader(rw[r], StatusRequestTimeout))]
    /\ hist' = [hist EXCEPT ![r].committedEarly = rw[r].written]
    /\ fg' = [fg EXCEPT ![r].pc = "t_abort"]
    /\ UNCHANGED <<t, active, bufPool, bufs, nalloc, ctx, ch, tw, bg>>

\* Timeout branch that runs the responder for positive timeouts only.
TimeoutRespondPositiveOnly(r) ==
    /\ fg[r].pc = "t_respond"
    /\ rw' = [rw EXCEPT ![r] =
                IF ~rw[r].written /\ t.timeout > 0
                THEN RenderReal(rw[r], t.response.status, <<Chunk(t.response.body, r, 0)>>)
                ELSE rw[r]]
    /\ hist' = [hist EXCEPT ![r].committedEarly = rw[r].written]
    /\ fg' = [fg EXCEPT ![r].pc = "t_abort"]
    /\ UNCHANGED <<t, active, bufPool, bufs, nalloc, ctx, ch, tw, bg>>

\* timeoutCtx := c.Copy(); timeoutCtx.Writer = w; if !w.Written() { t.response(timeoutCtx) }
TimeoutRespond(r) ==
    /\ fg[r].pc = "t_respond"
    /\ rw' = [rw EXCEPT ![r] =
                IF ~rw[r].written
                THEN RenderReal(rw[r], t.response.status, <<Chunk(t.response.body, r, 0)>>)
                ELSE rw[r]]
    /\ hist' = [hist EXCEPT ![r].committedEarly = rw[r].written]
    /\ fg' = [fg EXCEPT ![r].pc = "t_abort"]
    /\ UNCHANGED <<t, active, bufPool, bufs, nalloc, ctx, ch, tw, bg>>

\* Timeout branch inside a loop: after aborting, the select is entered again.
TimeoutAbortLoops(r) ==
    /\ fg[r].pc = "t_abort"
    /\ MuFree(r)
    /\ fg' = [fg EXCEPT ![r].pc = "select"]
    /\ UNCHANGED <<t, active, bufPool, bufs, nalloc, ctx, ch, bg, hist, tw, rw>>

\* Timeout branch that clears the timed-out flag of the writer once it has aborted.
TimeoutAbortClearsFlag(r) ==
    /\ fg[r].pc = "t_abort"
    /\ MuFree(r)
    /\ LET a == ShadowWriteHeader(tw[r], rw[r], StatusRequestTimeout)
           b == ShadowWriteHeaderNow(a.tw, a.rw)
       IN /\ tw' = [tw EXCEPT ![r] = [b.tw EXCEPT !.timeout = FALSE]]
          /\ rw' = [rw EXCEPT ![r] = b.rw]
    /\ ctx' = [ctx EXCEPT ![r].index = AbortIndex]
    /\ fg' = [fg EXCEPT ![r].pc = "done"]
    /\ UNCHANGED <<t, active, bufPool, bufs, nalloc, ch, bg, hist>>

\* c.AbortWithStatus(408): c.Writer is still the shadow writer, so this is
\* tw.WriteHeader(408) (dropped once timed out) and tw.WriteHeaderNow() (which still
\* copies the cached headers to the real writer), then c.Abort().
TimeoutAbort(r) ==
    /\ fg[r].pc = "t_abort"
    /\ MuFree(r)
    /\ LET a == ShadowWriteHeader(tw[r], rw[r], StatusRequestTimeout)
           b == ShadowWriteHeaderNow(a.tw, a.rw)
       IN /\ tw' = [tw EXCEPT ![r] = b.tw]
          /\ rw' = [rw EXCEPT ![r] = b.rw]
    /\ ctx' = [ctx EXCEPT ![r].index = AbortIndex]
    /\ fg' = [fg EXCEPT ![r].pc = "done"]
    /\ UNCHANGED <<t, active, bufPool, bufs, nalloc, ch, bg, hist>>

\* --------------------------------------- background path: the unit of work
\* The unit of work may still call the writer.
Running(r) ==
    /\ bg[r].pc = "run"
    /\ bg[r].ops < (IF active = Reqs THEN MaxPoolOps ELSE MaxOps)

\* c.Writer.Header().Set(k, v) (c.Header(k, v)): the cache is handed out unguarded.
HandlerHeaderSet(r, k) ==
    /\ Running(r)
    /\ tw' = [tw EXCEPT ![r].headers = @ \cup {k}]
    /\ bg' = [bg EXCEPT ![r].ops = @ + 1]
    /\ UNCHANGED <<t, active, bufPool, bufs, nalloc, fg, ctx, ch, rw, hist>>

\* c.Writer.Header().Del(k) (c.Header(k, ""))
HandlerHeaderDel(r, k) ==
    /\ Running(r)
    /\ k \in tw[r].headers
    /\ tw' = [tw EXCEPT ![r].headers = @ \ {k}]
    /\ bg' = [bg EXCEPT ![r].ops = @ + 1]
    /\ UNCHANGED <<t, active, bufPool, bufs, nalloc, fg, ctx, ch, rw, hist>>

\* Writer.Write called: w.mu.Lock()
HandlerWrite(r) ==
    /\ Running(r)
    /\ MuFree(r)
    /\ tw' = [tw EXCEPT ![r].mu = "bg"]
    /\ bg' = [bg EXCEPT ![r].pc = "write", ![r].ops = @ + 1, ![r].nwrites = @ + 1]
    /\ hist' = [hist EXCEPT ![r].asked = Append(@, Chunk("handler", r, bg[r].nwrites + 1))]
    /\ UNCHANGED <<t, active, bufPool, bufs, nalloc, fg, ctx, ch, rw>>

\* Write that appends to the buffer the writer was built with, whatever its flags.
WriteLockedUnchecked(r) ==
    /\ bg[r].pc = "write"
    /\ bufs' = [bufs EXCEPT ![fg[r].buffer] = Append(@, Chunk("handler", r, bg[r].nwrites))]
    /\ hist' = [hist EXCEPT ![r].lastRet = 1, ![r].appended = @ + 1]
    /\ tw' = [tw EXCEPT ![r].mu = "free"]
    /\ bg' = [bg EXCEPT ![r].pc = "run"]
    /\ UNCHANGED <<t, active, bufPool, nalloc, fg, ctx, ch, rw>>

\* Writer.Write under the lock: return 0 when silenced, else append to w.body; unlock.
WriteLocked(r) ==
    /\ bg[r].pc = "write"
    /\ IF WriteSilenced(tw[r])
       THEN /\ bufs' = bufs
            /\ hist' = [hist EXCEPT ![r].lastRet = 0]
       ELSE /\ bufs' = [bufs EXCEPT ![tw[r].body] =
                            Append(@, Chunk("handler", r, bg[r].nwrites))]
            /\ hist' = [hist EXCEPT ![r].lastRet = 1, ![r].appended = @ + 1]
    /\ tw' = [tw EXCEPT ![r].mu = "free"]
    /\ bg' = [bg EXCEPT ![r].pc = "run"]
    /\ UNCHANGED <<t, active, bufPool, nalloc, fg, ctx, ch, rw>>

\* Writer.WriteHeader(code) called: w.mu.Lock()
HandlerWriteHeader(r, code) ==
    /\ Running(r)
    /\ MuFree(r)
    /\ tw' = [tw EXCEPT ![r].mu = "bg"]
    /\ bg' = [bg EXCEPT ![r].pc = "writeHeader", ![r].ops = @ + 1, ![r].pend = code]
    /\ UNCHANGED <<t, active, bufPool, bufs, nalloc, fg, ctx, ch, rw, hist>>

\* WriteHeader under the lock without the test for -1: -1 reaches checkWriteHeaderCode.
WriteHeaderLockedNoSkip(r) ==
    /\ bg[r].pc = "writeHeader"
    /\ LET code == bg[r].pend IN
        IF WriteHeaderSkipped(tw[r])
        THEN /\ tw' = [tw EXCEPT ![r].mu = "free"]
             /\ bg' = [bg EXCEPT ![r].pc = "run"]
             /\ UNCHANGED <<rw, ch, hist>>
        ELSE IF ~ValidCode(code)
        THEN /\ Len(ch[r].panicChan) < ChanCap
             /\ tw' = [tw EXCEPT ![r].mu = "free"]
             /\ bg' = [bg EXCEPT ![r].pc = "done"]
             /\ ch' = [ch EXCEPT ![r].panicChan = Append(@, code)]
             /\ hist' = [hist EXCEPT ![r].panicked = code,
                                     ![r].panicEarly = (ch[r].timer # "fired")]
             /\ rw' = rw
        ELSE /\ tw' = [tw EXCEPT ![r] =
                        [ShadowWriteHeader(tw[r], rw[r], code).tw EXCEPT !.mu = "free"]]
             /\ rw' = [rw EXCEPT ![r] = ShadowWriteHeader(tw[r], rw[r], code).rw]
             /\ bg' = [bg EXCEPT ![r].pc = "run"]
             /\ hist' = [hist EXCEPT ![r].firstStatus = IF @ = 0 THEN code ELSE @,
                                     ![r].now = IF @ = -1 THEN code ELSE @,
                                     ![r].statusEarly = (ch[r].timer # "fired")]
             /\ ch' = ch
    /\ UNCHANGED <<t, active, bufPool, bufs, nalloc, fg, ctx>>

\* Writer.WriteHeader under the lock: skip when timed out or already written, skip -1,
\* panic on an invalid code, else copy the cached headers to the real writer, record
\* the code and pass it to the real writer's WriteHeader; the deferred unlock runs.
WriteHeaderLocked(r) ==
    /\ bg[r].pc = "writeHeader"
    /\ LET code == bg[r].pend IN
        IF WriteHeaderSkipped(tw[r]) \/ code = -1
        THEN /\ tw' = [tw EXCEPT ![r].mu = "free"]
             /\ bg' = [bg EXCEPT ![r].pc = "run"]
             /\ UNCHANGED <<rw, ch, hist>>
        ELSE IF ~ValidCode(code)
        THEN /\ Len(ch[r].panicChan) < ChanCap
             /\ tw' = [tw EXCEPT ![r].mu = "free"]
             /\ bg' = [bg EXCEPT ![r].pc = "done"]
             /\ ch' = [ch EXCEPT ![r].panicChan = Append(@, code)]
             /\ hist' = [hist EXCEPT ![r].panicked = code,
                                     ![r].panicEarly = (ch[r].timer # "fired")]
             /\ rw' = rw
        ELSE /\ tw' = [tw EXCEPT ![r] =
                        [ShadowWriteHeader(tw[r], rw[r], code).tw EXCEPT !.mu = "free"]]
             /\ rw' = [rw EXCEPT ![r] = ShadowWriteHeader(tw[r], rw[r], code).rw]
             /\ bg' = [bg EXCEPT ![r].pc = "run"]
             /\ hist' = [hist EXCEPT ![r].firstStatus = IF @ = 0 THEN code ELSE @,
                                     ![r].now = IF @ = -1 THEN code ELSE @,
                                     ![r].statusEarly = (ch[r].timer # "fired")]
             /\ ch' = ch
    /\ UNCHANGED <<t, active, bufPool, bufs, nalloc, fg, ctx>>

\* Writer.WriteHeaderNow, the part before its call of w.WriteHeader: without the lock,
\* default the code to 200 and copy the cached headers to the real writer.
HandlerWriteHeaderNow(r) ==
    /\ Running(r)
    /\ tw' = [tw EXCEPT ![r] = ShadowHeaderNowPrepare(tw[r], rw[r]).tw]
    /\ rw' = [rw EXCEPT ![r] = ShadowHeaderNowPrepare(tw[r], rw[r]).rw]
    /\ bg' = [bg EXCEPT ![r].pc = IF ~tw[r].wroteHeaders THEN "writeHeaderNow" ELSE "run",
                        ![r].ops = @ + 1]
    /\ hist' = [hist EXCEPT ![r].nowCalled = TRUE,
                            ![r].nowHeaders = IF hist[r].nowCalled THEN @ ELSE tw[r].headers,
                            ![r].now = IF ~tw[r].wroteHeaders /\ @ = 0 THEN -1 ELSE @]
    /\ UNCHANGED <<t, active, bufPool, bufs, nalloc, fg, ctx, ch>>

\* Writer.WriteHeaderNow calls w.WriteHeader(w.code): w.mu.Lock()
WriteHeaderNowLock(r) ==
    /\ bg[r].pc = "writeHeaderNow"
    /\ MuFree(r)
    /\ tw' = [tw EXCEPT ![r].mu = "bg"]
    /\ bg' = [bg EXCEPT ![r].pc = "writeHeader", ![r].pend = tw[r].code]
    /\ UNCHANGED <<t, active, bufPool, bufs, nalloc, fg, ctx, ch, rw, hist>>

\* c.Writer.Flush(): not overridden by Writer, so the embedded real writer sends
\* its status and headers.
HandlerFlush(r) ==
    /\ Running(r)
    /\ rw' = [rw EXCEPT ![r] = RealWriteHeaderNow(rw[r])]
    /\ bg' = [bg EXCEPT ![r].ops = @ + 1]
    /\ hist' = [hist EXCEPT ![r].flushed = TRUE]
    /\ UNCHANGED <<t, active, bufPool, bufs, nalloc, fg, ctx, ch, tw>>

\* A goroutine whose deferred function also sends the completion signal.
HandlerPanicAlsoFinishes(r, p) ==
    /\ bg[r].pc = "run"
    /\ bg' = [bg EXCEPT ![r].pc = "done"]
    /\ ch' = [ch EXCEPT ![r].panicChan = <<p>>, ![r].finish = 1]
    /\ hist' = [hist EXCEPT ![r].panicked = p,
                            ![r].panicEarly = (ch[r].timer # "fired")]
    /\ UNCHANGED <<t, active, bufPool, bufs, nalloc, fg, ctx, tw, rw>>

\* The unit of work panics: the deferred recover() sends the value on panicChan.
HandlerPanic(r, p) ==
    /\ bg[r].pc = "run"
    /\ Len(ch[r].panicChan) < ChanCap
    /\ bg' = [bg EXCEPT ![r].pc = "done"]
    /\ ch' = [ch EXCEPT ![r].panicChan = Append(@, p)]
    /\ hist' = [hist EXCEPT ![r].panicked = p,
                            ![r].panicEarly = (ch[r].timer # "fired")]
    /\ UNCHANGED <<t, active, bufPool, bufs, nalloc, fg, ctx, tw, rw>>

\* Values the unsynchronised read of c.index in the goroutine's c.index++ can return:
\* the current one, or the one the goroutine itself stored last when the foreground
\* path's c.Abort() races with the read.
IndexReads(r) == {ctx[r].index, bg[r].idx}

\* c.index++ stores i; then either the loop of c.Next() starts handlers[c.index], or
\* c.Next() returns and finish <- struct{}{} is sent.
StageNext(r, i) ==
    /\ ctx' = [ctx EXCEPT ![r].index = i]
    /\ IF i < ctx[r].handlers
       THEN /\ bg' = [bg EXCEPT ![r].pc = "run", ![r].idx = i]
            /\ hist' = [hist EXCEPT ![r].lateStart = @ \/ fg[r].branch = "timeout"]
            /\ ch' = ch
       ELSE /\ ch[r].finish < ChanCap
            /\ bg' = [bg EXCEPT ![r].pc = "done", ![r].idx = i]
            /\ ch' = [ch EXCEPT ![r].finish = @ + 1]
            /\ hist' = [hist EXCEPT ![r].doneEarly = (ch[r].timer # "fired")]
    /\ UNCHANGED <<t, active, bufPool, bufs, nalloc, fg, tw, rw>>

\* The goroutine calls c.Next() on the shared context: c.index++, then the loop.
EnterNext(r) ==
    /\ bg[r].pc = "enter"
    /\ \E v \in IndexReads(r) : StageNext(r, v + 1)

\* The return of a stage with an unbuffered finish channel: the send needs the
\* foreground path to be waiting in its select.
HandlerReturnRendezvous(r) ==
    /\ bg[r].pc = "run"
    /\ \E v \in IndexReads(r) :
        /\ v + 1 >= ctx[r].handlers => fg[r].pc = "select"
        /\ StageNext(r, v + 1)

\* A stage of the unit of work returns into the loop of c.Next(): c.index++, then the
\* loop test.
HandlerReturn(r) ==
    /\ bg[r].pc = "run"
    /\ \E v \in IndexReads(r) : StageNext(r, v + 1)

\* A stage of the unit of work calls c.Abort().
HandlerAbort(r) ==
    /\ Running(r)
    /\ ctx[r].index < AbortIndex
    /\ ctx' = [ctx EXCEPT ![r].index = AbortIndex]
    /\ bg' = [bg EXCEPT ![r].ops = @ + 1, ![r].idx = AbortIndex]
    /\ UNCHANGED <<t, active, bufPool, bufs, nalloc, fg, ch, tw, rw, hist>>

\* ------------------------------------------------- the enclosing pipeline
\* gin.CustomRecovery around the guard: c.String(500, "panic caught: %v", recovered)
\* on whatever c.Writer is at that moment.
Recovery(r) ==
    /\ fg[r].pc = "panicking"
    /\ LET data == Chunk("recovered", r, fg[r].raised) IN
        IF ctx[r].Writer = "w"
        THEN /\ rw' = [rw EXCEPT ![r] =
                        RenderReal(rw[r], StatusInternalServerError, <<data>>)]
             /\ UNCHANGED <<tw, bufs>>
        ELSE /\ MuFree(r)
             /\ LET a == ShadowWriteHeader(tw[r], rw[r], StatusInternalServerError) IN
                 /\ tw' = [tw EXCEPT ![r] = [a.tw EXCEPT !.headers = @ \cup {ContentType}]]
                 /\ rw' = [rw EXCEPT ![r] = a.rw]
             /\ bufs' = IF WriteSilenced(tw[r]) THEN bufs
                        ELSE [bufs EXCEPT ![tw[r].body] = Append(@, data)]
    /\ fg' = [fg EXCEPT ![r].pc = "done"]
    /\ UNCHANGED <<t, active, bufPool, nalloc, ctx, ch, bg, hist>>

\* The guard has returned to the dispatcher: its loop does c.index++ and starts the
\* next stage if c.index is still inside the chain (such a stage is modelled by its
\* start only); then the engine ends the request: the real writer's WriteHeaderNow
\* sends status and headers if nothing was sent yet; this is what the client (the
\* recorder) sees.
Serve(r) ==
    /\ fg[r].pc = "done"
    /\ rw' = [rw EXCEPT ![r] = RealWriteHeaderNow(rw[r])]
    /\ fg' = [fg EXCEPT ![r].pc = "served"]
    /\ hist' = [hist EXCEPT ![r].lateStart =
                    @ \/ (fg[r].branch = "timeout" /\ ctx[r].index + 1 < ctx[r].handlers)]
    /\ UNCHANGED <<t, active, bufPool, bufs, nalloc, ctx, ch, tw, bg>>

\* ------------------------------------------------------------ specification
Foreground(r) ==
    \/ Start(r)
    \/ FaultBranch(r)
    \/ FinishBranch(r)
    \/ FinishFlush(r)
    \/ TimeoutLock(r)
    \/ TimeoutRelease(r)
    \/ TimeoutRespond(r)
    \/ TimeoutAbort(r)
    \/ Recovery(r)
    \/ Serve(r)

Next ==
    \E r \in Reqs :
        \/ Foreground(r)
        \/ TimerFires(r)
        \/ \E k \in HandlerHeaders : HandlerHeaderSet(r, k) \/ HandlerHeaderDel(r, k)
        \/ HandlerWrite(r)
        \/ WriteLocked(r)
        \/ \E code \in HandlerCodes : HandlerWriteHeader(r, code)
        \/ WriteHeaderLocked(r)
        \/ HandlerWriteHeaderNow(r)
        \/ WriteHeaderNowLock(r)
        \/ HandlerFlush(r)
        \/ \E p \in PanicValues : HandlerPanic(r, p)
        \/ HandlerAbort(r)
        \/ EnterNext(r)
        \/ HandlerReturn(r)

Spec == Init /\ [][Next]_vars

\* Two concurrent requests sharing the pool, their units of work only writing bodies:
\* New() without options (so a positive timeout and the default responder), release
\* mode, one stage after the guard.
InitPool ==
    /\ InitCommon
    /\ active = Reqs
    /\ t.opts = <<>>
    /\ ~t.debug
    /\ \A r \in Reqs : ctx[r].handlers = 2

NextPool ==
    \E r \in Reqs :
        \/ Foreground(r)
        \/ TimerFires(r)
        \/ HandlerWrite(r)
        \/ WriteLocked(r)
        \/ \E p \in PanicValues : HandlerPanic(r, p)
        \/ EnterNext(r)
        \/ HandlerReturn(r)

SpecPool == InitPool /\ [][NextPool]_vars

\* One request under every configuration, one stage after the guard, with the
\* scheduling the Go runtime gives: the channel of time.After becomes ready, a
\* critical section of Writer.Write or Writer.WriteHeader ends, and the foreground goroutine runs whenever
\* it can again and again (sync.Mutex hands the lock to a starving waiter). Nothing
\* makes the unit of work take a step outside a critical section: it may never return.
InitLive ==
    /\ InitCommon
    /\ active = {1}
    /\ \A r \in Reqs : ctx[r].handlers = 2

\* The unit of work writes bodies and calls WriteHeaderNow (which calls WriteHeader).
NextLive ==
    \/ NextPool
    \/ \E r \in Reqs :
        \/ HandlerWriteHeaderNow(r)
        \/ WriteHeaderNowLock(r)
        \/ WriteHeaderLocked(r)

Fairness ==
    \A r \in Reqs :
        /\ WF_vars(TimerFires(r))
        /\ WF_vars(WriteLocked(r))
        /\ WF_vars(WriteHeaderLocked(r))
        /\ SF_vars(Foreground(r))

SpecLive == InitLive /\ [][NextLive]_vars /\ Fairness

\* ------------------------------------------------- a negative timeout
\* One request through New(WithTimeout(d)) with d negative, one stage after the guard.
InitNegative ==
    /\ InitCommon
    /\ Len(t.opts) = 1 /\ t.opts[1].kind = "timeout"
    /\ t.opts[1].timeout \in NegativeDurations
    /\ active = {1}
    /\ \A r \in Reqs : ctx[r].handlers = 2

\* time.After of a negative duration is ready when the select is entered: the steps
\* of Next without a separate firing of the timer.
NextNegative ==
    \E r \in Reqs :
        \/ Foreground(r)
        \/ \E k \in HandlerHeaders : HandlerHeaderSet(r, k) \/ HandlerHeaderDel(r, k)
        \/ HandlerWrite(r)
        \/ WriteLocked(r)
        \/ \E code \in HandlerCodes : HandlerWriteHeader(r, code)
        \/ WriteHeaderLocked(r)
        \/ HandlerWriteHeaderNow(r)
        \/ WriteHeaderNowLock(r)
        \/ HandlerFlush(r)
        \/ \E p \in PanicValues : HandlerPanic(r, p)
        \/ HandlerAbort(r)
        \/ EnterNext(r)
        \/ HandlerReturn(r)

SpecNegative == InitNegative /\ [][NextNegative]_vars

\* ------------------------------------------------ New() called once more
\* One request of the guard built first, in release mode.
InitNew ==
    /\ InitCommon
    /\ active = {1}
    /\ t.opts = <<>>
    /\ ~t.debug
    /\ \A r \in Reqs : ctx[r].handlers = 2

\* Another call of New(): bufPool = &BufferPool{} replaces the package-level pool;
\* the handlers built before keep reading that variable.
NewCalled ==
    /\ bufPool.id < MaxNew
    /\ bufPool' = [id |-> bufPool.id + 1, last |-> NoBuffer, pool |-> {}]
    /\ UNCHANGED <<t, active, bufs, nalloc, fg, ctx, ch, tw, rw, bg, hist>>

NextNew == NextPool \/ NewCalled

SpecNew == InitNew /\ [][NextNew]_vars

\* ------------------------------------------ the buffer pool used directly
\* Callers of the pool outside any request (as the tests of the pool are): each holds
\* at most one buffer, the one it got and has not put back.
InitBufferPool ==
    /\ InitCommon
    /\ active = {}
    /\ t = Config(<<>>, FALSE)
    /\ \A r \in Reqs : ctx[r].handlers = 2

\* buf := pool.Get()
PoolGet(c) ==
    /\ fg[c].buffer = NoBuffer
    /\ \E b \in GetChoices :
        /\ bufPool' = PoolAfterGet(b)
        /\ nalloc' = IF b > nalloc THEN b ELSE nalloc
        /\ fg' = [fg EXCEPT ![c].buffer = b]
    /\ UNCHANGED <<t, active, bufs, ctx, ch, tw, rw, bg, hist>>

\* buf.WriteString("hello")
PoolWriteString(c) ==
    /\ fg[c].buffer # NoBuffer
    /\ Len(bufs[fg[c].buffer]) < MaxBufLen
    /\ bufs' = [bufs EXCEPT ![fg[c].buffer] = Append(@, Chunk("hello", c, 0))]
    /\ UNCHANGED <<t, active, bufPool, nalloc, fg, ctx, ch, tw, rw, bg, hist>>

\* buf.Reset()
PoolReset(c) ==
    /\ fg[c].buffer # NoBuffer
    /\ bufs' = [bufs EXCEPT ![fg[c].buffer] = <<>>]
    /\ UNCHANGED <<t, active, bufPool, nalloc, fg, ctx, ch, tw, rw, bg, hist>>

\* pool.Put(buf)
PoolPut(c) ==
    /\ fg[c].buffer # NoBuffer
    /\ bufPool' = PoolAfterPut(fg[c].buffer)
    /\ fg' = [fg EXCEPT ![c].buffer = NoBuffer]
    /\ UNCHANGED <<t, active, bufs, nalloc, ctx, ch, tw, rw, bg, hist>>

NextBufferPool ==
    \E c \in Reqs :
        \/ PoolGet(c)
        \/ PoolWriteString(c)
        \/ PoolReset(c)
        \/ PoolPut(c)

SpecBufferPool == InitBufferPool /\ [][NextBufferPool]_vars

\* A step changes the state of request r's shadow writer that its mutex guards: the
\* contents of the staging buffer, the buffer pointer, the cached status, the
\* committed flag or the timed-out flag.
WriterStateChanges(r) ==
    \/ tw'[r].body # tw[r].body
    \/ tw'[r].code # tw[r].code
    \/ tw'[r].wroteHeaders # tw[r].wroteHeaders
    \/ tw'[r].timeout # tw[r].timeout
    \/ tw[r].body # NoBuffer /\ bufs'[tw[r].body] # bufs[tw[r].body]

\* ================================================================ properties
\* Buffers currently held by the pool.
Pooled == ({bufPool.last} \cup bufPool.pool) \ {NoBuffer}

\* The foreground path has left the select.
PastSelect(r) == fg[r].pc \notin {"idle", "select"}

\* The request was answered and the engine has sent what the real writer holds.
Served(r) == fg[r].pc = "served"

\* The only chunk of the configured fallback response for request r.
FallbackBody(r) == <<Chunk(t.response.body, r, 0)>>

\* C1: the foreground path takes exactly one of the branches flush, substitute,
\* fault-report: a branch is recorded exactly when the select was left, and once a
\* branch is recorded no step changes it, whatever signal arrives later.
C1_ExactlyOneBranch ==
    /\ [](\A r \in Reqs : PastSelect(r) <=> fg[r].branch \in {"finish", "timeout", "panic"})
    /\ [][\A r \in Reqs : fg[r].branch # "none" => fg'[r].branch = fg[r].branch]_vars

\* The timer branch was taken, the request is over, and the completion signal that
\* arrived afterwards is still pending on the finish channel.
C1_Witness ==
    \E r \in Reqs : fg[r].branch = "timeout" /\ Served(r) /\ ch[r].finish = 1

\* C2: when the timer branch is taken and the real writer had not sent headers, the
\* client gets exactly the status and body of the configured fallback responder,
\* whatever the unit of work wrote to the shadow writer before or after.
C2_FallbackDelivered ==
    \A r \in Reqs :
        (fg[r].branch = "timeout" /\ fg[r].pc \in {"t_abort", "done", "served"}
            /\ ~hist[r].committedEarly)
        => /\ rw[r].written
           /\ rw[r].sentStatus = t.response.status
           /\ rw[r].body = FallbackBody(r)

\* A timed-out request whose unit of work set a status and wrote a body before the
\* timeout and wrote again (silenced) after it.
C2_Witness ==
    \E r \in Reqs :
        /\ fg[r].branch = "timeout" /\ Served(r) /\ ~hist[r].committedEarly
        /\ tw[r].wroteHeaders /\ hist[r].appended > 0 /\ hist[r].lastRet = 0

\* C3: no partial response: as long as the unit of work did not flush the real writer
\* itself, the real output has received nothing, or the staged response after the
\* completion branch, or a fallback/fault response holding no status, header or
\* body chunk of the unit of work.
C3_NoPartialResponse ==
    \A r \in Reqs :
        ~hist[r].flushed =>
            \/ ~rw[r].written
            \/ fg[r].branch = "finish"
            \/ /\ fg[r].branch \in {"timeout", "panic"}
               /\ rw[r].sentStatus \in {t.response.status, StatusInternalServerError}
               /\ rw[r].sentHeaders \cap HandlerHeaders = {}
               /\ \A i \in 1..Len(rw[r].body) : rw[r].body[i][1] # "handler"

\* C4: after the completion branch (the flush succeeding, the unit of work not having
\* flushed the real writer itself) the client sees the first status the unit of work
\* set (200 if none), exactly the headers left in Header(), and the chunks of all its
\* Write calls in order.
C4_FlushEqualsWritten ==
    \A r \in Reqs :
        (fg[r].branch = "finish" /\ Served(r) /\ ~hist[r].flushed /\ ~hist[r].writeFailed)
        => /\ rw[r].sentStatus =
                (IF hist[r].firstStatus # 0 THEN hist[r].firstStatus ELSE StatusOK)
           /\ rw[r].sentHeaders = tw[r].headers
           /\ rw[r].body = hist[r].asked

\* C5: a unit of work that sent its completion signal before the timer fired never
\* gets the timer branch.
C5_EarlyFinishWins ==
    \A r \in Reqs : hist[r].doneEarly => fg[r].branch # "timeout"

\* C6: once the shadow writer is timed out or its buffer released, a Write of the
\* background path returns 0 and leaves every buffer untouched, a WriteHeader leaves
\* the cached status and the committed flag untouched, and neither changes what the
\* real writer holds or has sent.
C6_SilencedWritesDropped ==
    [][\A r \in Reqs :
        (tw[r].timeout \/ tw[r].body = NoBuffer) =>
            /\ (bg[r].pc = "write" /\ bg'[r].pc # "write")
                => hist'[r].lastRet = 0 /\ bufs' = bufs /\ rw'[r] = rw[r]
            /\ (bg[r].pc = "writeHeader" /\ bg'[r].pc # "writeHeader")
                => /\ tw'[r].code = tw[r].code
                   /\ tw'[r].wroteHeaders = tw[r].wroteHeaders
                   /\ rw'[r] = rw[r]
                   /\ bufs' = bufs]_vars

\* After the timeout the unit of work called Write (dropped) and is inside WriteHeader.
C6_Witness ==
    \E r \in Reqs :
        tw[r].timeout /\ hist[r].lastRet = 0 /\ bg[r].pc = "writeHeader"
            /\ bg[r].pend \in {201, 404} /\ ~tw[r].wroteHeaders

\* C7: on every exit path the request took one buffer with Get and returned that
\* buffer with Put exactly once.
C7_OneGetOnePut ==
    \A r \in Reqs :
        fg[r].pc \in {"done", "served", "panicking"}
        => hist[r].gets = 1 /\ hist[r].puts = 1 /\ hist[r].putBuf = fg[r].buffer

\* C8: bytes are only ever appended to a buffer that is not in the pool and that is
\* still attached to the writer of a request that has not returned it.
C8_NoWriteAfterRelease ==
    [][\A b \in BufIds :
        Len(bufs'[b]) > Len(bufs[b]) =>
            /\ b \notin Pooled
            /\ \E r \in Reqs : tw[r].body = b /\ fg[r].buffer = b /\ hist[r].puts = 0]_vars

\* A Write that completed before the release and a later one that appended nothing.
C8_Witness ==
    \E r \in Reqs :
        tw[r].timeout /\ hist[r].appended > 0 /\ hist[r].lastRet = 0
            /\ fg[r].buffer \in Pooled

\* C9: no buffer is attached to two writers at once or attached while in the pool, and
\* every chunk staged for or sent to a request was written for that request.
C9_NoSharedBuffer ==
    /\ \A r1, r2 \in Reqs :
        (r1 # r2 /\ tw[r1].body # NoBuffer) => tw[r1].body # tw[r2].body
    /\ \A r \in Reqs :
        /\ tw[r].body # NoBuffer =>
            /\ tw[r].body \notin Pooled
            /\ \A i \in 1..Len(bufs[tw[r].body]) : bufs[tw[r].body][i][2] = r
        /\ \A i \in 1..Len(rw[r].body) : rw[r].body[i][2] = r

\* A request stages bytes in the buffer a timed-out request returned, while that
\* request's unit of work is still running.
C9_Witness ==
    \E r1, r2 \in Reqs :
        /\ r1 # r2
        /\ tw[r1].timeout /\ bg[r1].pc = "run" /\ fg[r1].buffer = tw[r2].body
        /\ Len(bufs[tw[r2].body]) > 0

\* C10: in non-debug mode the fault branch releases the buffer, restores the real
\* writer in the context and re-raises the value the unit of work panicked with; the
\* enclosing recovery then writes its response to the real output (status 500 unless
\* the unit of work had flushed the real writer itself).
C10_FaultResurfaced ==
    \A r \in Reqs :
        (fg[r].branch = "panic" /\ ~t.debug) =>
            /\ ctx[r].Writer = "w"
            /\ tw[r].body = NoBuffer
            /\ fg[r].raised = hist[r].panicked
            /\ fg[r].pc \in {"done", "served"} =>
                /\ rw[r].written
                /\ rw[r].body = <<Chunk("recovered", r, hist[r].panicked)>>
                /\ ~hist[r].flushed => rw[r].sentStatus = StatusInternalServerError

\* The recovery layer answered 500 for a panic re-raised by the fault branch.
C10_Witness ==
    \E r \in Reqs :
        /\ fg[r].branch = "panic" /\ ~t.debug /\ Served(r)
        /\ rw[r].sentStatus = StatusInternalServerError
        /\ hist[r].appended > 0

\* C11: a unit of work that panicked (its fault signal sent) before the timer fired
\* never gets the timer branch, also when both signals are ready at the select.
C11_EarlyPanicFaults ==
    \A r \in Reqs : hist[r].panicEarly => fg[r].branch # "timeout"

\* C12: every panic of the unit of work is surfaced: when the request is over, a unit
\* of work that panicked had its panic taken by the fault branch (re-raised on the
\* foreground path or rendered as the diagnostic response), and no captured panic
\* is left unread on the fault channel.
C12_PanicSurfaced ==
    \A r \in Reqs :
        (Served(r) /\ hist[r].panicked # 0)
        => fg[r].branch = "panic" /\ ch[r].panicChan = <<>>

\* C13: once the timer branch is taken no further stage of the handler chain is
\* started, by the dispatcher or by the background path, and when the guard has
\* returned the request is aborted.
C13_NoStageAfterTimeout ==
    \A r \in Reqs :
        /\ ~hist[r].lateStart
        /\ (fg[r].branch = "timeout" /\ fg[r].pc \in {"done", "served"})
            => ctx[r].index >= AbortIndex

\* C14: with a timeout <= 0 the guard is a pass-through: no buffer is taken from the
\* pool, the context keeps the real writer, no timer is raced and the timer branch
\* (the fallback response) is never taken.
C14_NonPositivePassThrough ==
    \A r \in Reqs :
        t.timeout <= 0 =>
            /\ hist[r].gets = 0
            /\ ctx[r].Writer = "w"
            /\ ch[r].timer = "off"
            /\ fg[r].branch # "timeout"

\* C16: once the timeout has elapsed, the request context seen by the still running
\* unit of work is done with the error DeadlineExceeded.
C16_DeadlineSignalled ==
    \A r \in Reqs :
        (ch[r].timer = "fired" /\ bg[r].pc \in {"enter", "run"})
        => ctx[r].Err = "DeadlineExceeded"

\* c.Writer.Status() as a middleware around the guard reads it.
ObservedStatus(r) ==
    IF ctx[r].Writer = "tw" THEN Status(tw[r], rw[r]) ELSE rw[r].status

\* C15: Writer.Status() tells the final status: once the unit of work set a status
\* through the shadow writer and the writer is not timed out, Status() is that status
\* at every later point; when the writer is timed out or no WriteHeader took effect,
\* Status() is the real writer's status; and when the request is over (the unit of
\* work not having flushed the real writer itself, the flush of the guard not having
\* failed) c.Writer.Status() is the status the client got.
C15_StatusIsFinal ==
    \A r \in Reqs :
        LET s == Status(tw[r], rw[r]) IN
            /\ (hist[r].firstStatus # 0 /\ ~tw[r].timeout) => s = hist[r].firstStatus
            /\ (tw[r].timeout \/ ~tw[r].wroteHeaders) => s = rw[r].status
            /\ (Served(r) /\ ~hist[r].flushed /\ ~hist[r].writeFailed)
                => ObservedStatus(r) = rw[r].sentStatus

\* The unit of work set 404 after it had flushed the real writer (which sent 200), and
\* the completion branch was taken: Status() still reports 404.
C15_Witness ==
    \E r \in Reqs :
        /\ fg[r].branch = "finish" /\ Served(r)
        /\ hist[r].firstStatus = 404 /\ rw[r].status = StatusOK
        /\ Status(tw[r], rw[r]) = 404

\* C17: when the timer branch is taken after the real writer has physically sent its
\* headers, the responder step leaves the real writer untouched and no fallback status
\* or body chunk ever reaches the client, while the shadow writer is still marked
\* timed out, the buffer is released and returned, and the guard's last step aborts
\* the context.
C17_NoFallbackAfterCommit ==
    /\ [](\A r \in Reqs :
            (fg[r].branch = "timeout" /\ hist[r].committedEarly
                /\ fg[r].pc \in {"t_abort", "done", "served"})
            => /\ tw[r].timeout /\ tw[r].body = NoBuffer
               /\ hist[r].puts = 1 /\ hist[r].putBuf = fg[r].buffer
               /\ rw[r].sentStatus \notin {rs.status : rs \in Responders}
               /\ \A i \in 1..Len(rw[r].body) :
                    rw[r].body[i][1] \notin {rs.body : rs \in Responders})
    /\ [][\A r \in Reqs :
            /\ (fg[r].pc = "t_respond" /\ rw[r].written /\ fg'[r].pc # "t_respond")
                => rw'[r] = rw[r]
            /\ (fg[r].pc = "t_abort" /\ fg'[r].pc # "t_abort")
                => ctx'[r].index = AbortIndex]_vars

\* A request whose unit of work flushed the real writer and staged a body before the
\* timer branch was taken, and that is over.
C17_Witness ==
    \E r \in Reqs :
        /\ fg[r].branch = "timeout" /\ hist[r].committedEarly /\ Served(r)
        /\ hist[r].flushed /\ hist[r].appended > 0

\* A chunk of a fallback responder is in the body the real writer sent.
FallbackSent(r) ==
    \E i \in 1..Len(rw[r].body) : rw[r].body[i][1] \in {rs.body : rs \in Responders}

C19_HeaderNowKeepsHeaders ==
    \A r \in Reqs :
        (Served(r) /\ hist[r].doneEarly /\ hist[r].nowCalled /\ hist[r].firstStatus # 0
            /\ ~hist[r].flushed /\ ~hist[r].writeFailed)
        => /\ rw[r].sentStatus = hist[r].firstStatus
           /\ hist[r].nowHeaders \subseteq rw[r].sentHeaders

\* A WriteHeader call of the background path returns or panics in this step.
WriteHeaderEnds(r) == bg[r].pc = "writeHeader" /\ bg'[r].pc # "writeHeader"

\* The WriteHeader call panics with its code and leaves the committed status and the
\* committed flag as they were.
PanicsUnchanged(r) ==
    /\ bg'[r].pc = "done"
    /\ ch'[r].panicChan = <<bg[r].pend>>
    /\ tw'[r].code = tw[r].code
    /\ tw'[r].wroteHeaders = tw[r].wroteHeaders

\* C20 as claimed: Writer.WriteHeader with any code outside 100..999 panics with that
\* code and leaves the committed status and the committed flag unchanged.
C20_InvalidCodePanics ==
    [][\A r \in Reqs :
        (WriteHeaderEnds(r) /\ (bg[r].pend < 100 \/ bg[r].pend > 999))
            => PanicsUnchanged(r)]_vars

\* C20 as amended: Writer.WriteHeader with a code outside 100..999 other than -1, on a
\* writer that is neither timed out nor has written headers, panics with that code;
\* with -1, or on a timed out or committed writer, it returns without a panic; in all
\* these cases the committed status, the committed flag and the real writer are
\* unchanged.
C20_InvalidCodePanicsUnlessSkipped ==
    [][\A r \in Reqs :
        (WriteHeaderEnds(r) /\ (bg[r].pend < 100 \/ bg[r].pend > 999))
            => /\ tw'[r].code = tw[r].code
               /\ tw'[r].wroteHeaders = tw[r].wroteHeaders
               /\ rw'[r] = rw[r]
               /\ IF tw[r].timeout \/ tw[r].wroteHeaders \/ bg[r].pend = -1
                  THEN bg'[r].pc = "run" /\ ch'[r] = ch[r]
                  ELSE PanicsUnchanged(r)]_vars

\* A WriteHeader with an invalid code panicked, the fault branch took the panic and
\* the request is over.
C20_Witness ==
    \E r \in Reqs :
        hist[r].panicked \in {99, 1000} /\ fg[r].branch = "panic" /\ Served(r)

\* C21: Writer.WriteHeader(-1) returns without a panic and changes nothing: the
\* committed flag and the cached status stay as they were (unset on a fresh writer)
\* and the real writer is untouched.
C21_MinusOneSkipped ==
    [][\A r \in Reqs :
        (WriteHeaderEnds(r) /\ bg[r].pend = -1)
            => /\ bg'[r].pc = "run"
               /\ ch'[r] = ch[r]
               /\ tw'[r].wroteHeaders = tw[r].wroteHeaders
               /\ tw'[r].code = tw[r].code
               /\ rw'[r] = rw[r]]_vars

\* WriteHeader(-1) has returned on a writer that is neither timed out nor committed:
\* no status is cached and the real writer still has its initial status.
C21_Witness ==
    \E r \in Reqs :
        /\ bg[r].pend = -1 /\ bg[r].pc = "run"
        /\ ~tw[r].timeout /\ ~tw[r].wroteHeaders /\ tw[r].code = 0
        /\ rw[r].status = StatusOK /\ ~rw[r].written

\* C22: the committed status is set at most once: once the shadow writer has written
\* headers, no step of any path changes its cached status or clears the flag, and
\* the cached status is the one of the first WriteHeader that took effect.
C22_StatusSetOnce ==
    /\ [][\A r \in Reqs :
            (tw[r].wroteHeaders /\ fg[r].pc # "idle")
                => tw'[r].wroteHeaders /\ tw'[r].code = tw[r].code]_vars
    /\ [](\A r \in Reqs : hist[r].firstStatus # 0 => tw[r].code = hist[r].firstStatus)

\* After WriteHeader(201) took effect the unit of work called WriteHeader(404) and
\* WriteHeaderNow, and both have returned.
C22_Witness ==
    \E r \in Reqs :
        /\ hist[r].firstStatus = 201 /\ bg[r].pend = 404 /\ bg[r].pc = "run"
        /\ hist[r].nowCalled /\ tw[r].code = 201

\* C23: when the unit of work completed before the deadline without ever setting a
\* status, the client-visible status is 200.
C23_DefaultStatusOK ==
    \A r \in Reqs :
        (Served(r) /\ hist[r].doneEarly /\ hist[r].firstStatus = 0)
        => rw[r].sentStatus = StatusOK

\* C24: the foreground path terminates: with a positive timeout a guard in its select
\* eventually returns or re-raises, even when the unit of work never returns; and no
\* step of the foreground path after the start stops or changes the background path.
C24_ForegroundTerminates ==
    /\ \A r \in Reqs :
        (fg[r].pc = "select" /\ t.timeout > 0)
            ~> (fg[r].pc \in {"done", "served", "panicking"})
    /\ [][\A r \in Reqs :
            (fg[r].pc # "idle" /\ fg'[r] # fg[r]) => bg'[r] = bg[r]]_vars

\* The guard returned through the timer branch of a positive timeout while the unit
\* of work is still running.
C24_Witness ==
    \E r \in Reqs :
        /\ t.timeout > 0
        /\ fg[r].pc \in {"done", "served"} /\ fg[r].branch = "timeout"
        /\ bg[r].pc \notin {"off", "done"}

\* C25: when the custom responder (status 504) is configured and has written the
\* timeout response, the client-visible status and body are exactly the custom ones,
\* and the abort with 408 that follows changes neither the status nor the body of
\* the real writer.
C25_CustomResponseKept ==
    /\ [](\A r \in Reqs :
            ( /\ t.response.status = StatusGatewayTimeout
              /\ fg[r].branch = "timeout"
              /\ fg[r].pc \in {"t_abort", "done", "served"}
              /\ ~hist[r].committedEarly )
            => /\ rw[r].sentStatus = StatusGatewayTimeout
               /\ rw[r].body = <<Chunk("Timed out.", r, 0)>>)
    /\ [][\A r \in Reqs :
            (fg[r].pc = "t_abort" /\ fg'[r].pc # "t_abort")
                => /\ rw'[r].status = rw[r].status
                   /\ rw'[r].sentStatus = rw[r].sentStatus
                   /\ rw'[r].body = rw[r].body]_vars

\* A timed-out request whose unit of work had set status 201 was answered by the
\* custom responder and served after the abort with 408.
C25_Witness ==
    \E r \in Reqs :
        /\ t.response.status = StatusGatewayTimeout
        /\ Served(r) /\ fg[r].branch = "timeout" /\ ~hist[r].committedEarly
        /\ hist[r].firstStatus = 201
        /\ rw[r].sentStatus = StatusGatewayTimeout

\* C26: a fault branch taken in debug mode calls WriteHeader(500) on the real writer
\* (which sends 500 unless that writer had already sent a status) and appends the
\* panic message and then the stack trace to its body, and the guard returns without
\* re-raising; in release mode the diagnostic response is never written and the
\* panic is re-raised.
C26_DebugFaultResponse ==
    /\ [][\A r \in Reqs :
            (fg[r].pc = "select" /\ fg'[r].branch = "panic" /\ t.debug)
                => /\ rw'[r].body = rw[r].body \o
                        << Chunk("panic caught", r, Head(ch[r].panicChan)),
                           Chunk("Panic stack trace", r, Head(ch[r].panicChan)) >>
                   /\ ~rw[r].written => rw'[r].sentStatus = StatusInternalServerError
                   /\ fg'[r].pc = "done"]_vars
    /\ [](\A r \in Reqs :
            /\ (fg[r].branch = "panic" /\ t.debug)
                => fg[r].pc \in {"done", "served"} /\ fg[r].raised = 0
            /\ ~t.debug
                => /\ \A i \in 1..Len(rw[r].body) :
                        rw[r].body[i][1] \notin {"panic caught", "Panic stack trace"}
                   /\ fg[r].branch = "panic" => fg[r].raised # 0)

\* A request whose unit of work panicked in debug mode was served with status 500.
C26_Witness ==
    \E r \in Reqs :
        /\ t.debug /\ fg[r].branch = "panic" /\ Served(r)
        /\ rw[r].sentStatus = StatusInternalServerError

\* C27: right after Put(b) a Get returns the very same buffer b, and the content of b
\* is what it was before the Put.
C27_PutThenGetSame ==
    [][\A c \in Reqs :
        (fg[c].buffer # NoBuffer /\ fg'[c].buffer = NoBuffer)
            => /\ GetChoices' = {fg[c].buffer}
               /\ bufs'[fg[c].buffer] = bufs[fg[c].buffer]]_vars

\* C28: the configuration is fixed at construction: when New was given no WithTimeout
\* the timeout is 5 seconds, when it was given no WithResponse the responder is the
\* default one (408), and no step of any request changes the timeout or the responder.
C28_ConfigFixed ==
    /\ []( /\ (\A i \in 1..Len(t.opts) : t.opts[i].kind # "timeout") => t.timeout = 5000
           /\ (\A i \in 1..Len(t.opts) : t.opts[i].kind # "response")
                => t.response = [status |-> 408, body |-> "Request Timeout"] )
    /\ [][t'.timeout = t.timeout /\ t'.response = t.response]_vars

\* Two concurrent requests were served by a guard built without options, one through
\* the timer branch and one through the finish branch.
C28_Witness ==
    /\ t.opts = <<>> /\ t.timeout = 5000
    /\ \A r \in Reqs : Served(r)
    /\ \E r, q \in Reqs : fg[r].branch = "timeout" /\ fg[q].branch = "finish"

\* C29: every step of the unit of work that changes the guarded state of its shadow
\* writer is taken while the goroutine holds that writer's mutex.
C29_MutationsUnderMutex ==
    [][\A r \in Reqs :
        (bg[r].pc # "off" /\ bg'[r] # bg[r] /\ WriterStateChanges(r))
            => tw[r].mu = "bg"]_vars

\* C30: when the unit of work set headers and called WriteHeader before the deadline
\* and the timer branch is taken, the real writer's header set holds none of the
\* unit of work's headers at the moment the fallback responder runs.
C30_NoHandlerHeadersInFallback ==
    \A r \in Reqs :
        (fg[r].pc = "t_respond" /\ ~rw[r].written /\ hist[r].statusEarly)
            => rw[r].headers \cap HandlerHeaders = {}

\* C31: the staging buffer of a request is empty at the moment its unit of work
\* starts, whatever earlier requests staged in that buffer and however they ended:
\* no byte of another request is in it.
C31_BufferEmptyAtStart ==
    \A r \in Reqs :
        (bg[r].pc = "enter" /\ tw[r].body # NoBuffer) => bufs[tw[r].body] = <<>>

\* The unit of work of a request is about to start on the buffer that another
\* request staged bytes in and returned to the pool.
C31_Witness ==
    \E r, q \in Reqs :
        /\ r # q
        /\ bg[r].pc = "enter" /\ tw[r].body # NoBuffer
        /\ hist[q].appended > 0 /\ hist[q].putBuf = tw[r].body

\* C32: a request's Put goes to the pool instance its Get came from, however calls of
\* New() interleave with the request.
C32_PutToPoolOfGet ==
    \A r \in Reqs : hist[r].putPool # 0 => hist[r].putPool = hist[r].getPool

\* C33: the background path signals at most once per request: a step sends on the
\* completion channel or on the fault channel, never on both; it is the last step of
\* the goroutine, which takes no step afterwards; and no signal is pending on either
\* channel when it sends.
C33_AtMostOneSignal ==
    [][\A r \in Reqs :
        LET sendsFinish == ch'[r].finish > ch[r].finish
            sendsPanic == Len(ch'[r].panicChan) > Len(ch[r].panicChan)
        IN /\ (sendsFinish \/ sendsPanic)
                => /\ ~(sendsFinish /\ sendsPanic)
                   /\ bg[r].pc \notin {"off", "done"} /\ bg'[r].pc = "done"
                   /\ ch[r].finish = 0 /\ ch[r].panicChan = <<>>
           /\ bg[r].pc = "done" => bg'[r] = bg[r]]_vars

\* The unit of work panicked after the timer branch was taken: its only signal, the
\* fault, is pending and the goroutine has ended.
C33_Witness ==
    \E r \in Reqs :
        /\ fg[r].branch = "timeout" /\ bg[r].pc = "done"
        /\ ch[r].panicChan # <<>> /\ ch[r].finish = 0

\* C34: the background path never blocks when it signals: whenever a stage of the
\* unit of work is running, its return (with the send on finish when it was the last
\* stage) and its panic (with the send on panicChan) can be taken, also after the
\* foreground path took the timer branch and returned.
C34_SignalNeverBlocks ==
    \A r \in Reqs :
        bg[r].pc = "run"
            => /\ ENABLED HandlerReturn(r)
               /\ \A p \in PanicValues : ENABLED HandlerPanic(r, p)

\* The guard returned through the timer branch and was served; the unit of work
\* returned afterwards, its completion signal was sent and the goroutine has ended.
C34_Witness ==
    \E r \in Reqs :
        /\ Served(r) /\ fg[r].branch = "timeout"
        /\ bg[r].pc = "done" /\ ch[r].finish = 1 /\ ~hist[r].doneEarly
        /\ hist[r].panicked = 0

\* C35: the mutex of the shadow writer is never held forever: the guard does not hold
\* it when it returns or re-raises (also when the real writer's Write failed) nor
\* while the fallback responder runs; WriteHeaderNow does not hold it when it calls
\* WriteHeader; and whoever holds it releases it, so that a Write or WriteHeader
\* waiting for it proceeds.
C35_MutexReleased ==
    /\ [](\A r \in Reqs :
            /\ fg[r].pc \in {"t_respond", "t_abort", "panicking", "done", "served"}
                => tw[r].mu # "fg"
            /\ bg[r].pc = "writeHeaderNow" => tw[r].mu # "bg")
    /\ \A r \in Reqs : tw[r].mu # "free" ~> tw[r].mu = "free"

\* The real writer's Write failed in the finish branch: the guard re-raises and the
\* mutex is free; the unit of work had called WriteHeaderNow and written a body.
C35_Witness ==
    \E r \in Reqs :
        /\ fg[r].pc = "panicking" /\ fg[r].branch = "finish" /\ hist[r].writeFailed
        /\ hist[r].nowCalled /\ tw[r].mu = "free"

\* C36: the silencing of the shadow writer is monotonic: after the start of the
\* request no step resets the timed-out flag or attaches a buffer to a writer whose
\* buffer pointer was released, so a silenced writer stays silenced.
C36_SilencingMonotonic ==
    [][\A r \in Reqs :
        fg[r].pc # "idle"
            => /\ tw[r].timeout => tw'[r].timeout
               /\ tw[r].body = NoBuffer => tw'[r].body = NoBuffer]_vars

\* The guard timed out and was served; the unit of work, still running, called Write
\* afterwards and the writer is still silenced.
C36_Witness ==
    \E r \in Reqs :
        /\ Served(r) /\ tw[r].timeout /\ tw[r].body = NoBuffer
        /\ bg[r].pc = "run" /\ hist[r].lastRet = 0 /\ bg[r].nwrites > hist[r].appended

=============================================================================
